---- MODULE Spec2Model ----
(***************************************************************************)
(* A model of pyspnego's Python managed SPNEGO context, NegotiateProxy     *)
(* (src/spnego/negotiate.py).  One context is driven by step calls whose   *)
(* input is any decoded SPNEGO message; the sub-contexts (GSSAPIProxy,     *)
(* NTLMProxy) follow the token flow of their mechanism and may fail.       *)
(***************************************************************************)
EXTENDS Integers, Sequences, FiniteSets, TLC

\* Bounds of the model.
MaxSteps == 2

\* ------------------------------------------------------------------------
\* Mechanism catalog (spnego._context.GSSMech).
KRB5_OID == "1.2.840.113554.1.2.2"
MS_KRB5_OID == "1.2.840.48018.1.2.2"
NTLM_OID == "1.3.6.1.4.1.311.2.2.10"
OTHER_OID == "1.3.6.1.5.2.5"

KnownOids == {KRB5_OID, MS_KRB5_OID, NTLM_OID}

\* GSSMech.from_oid: the member with this OID ("ValueError" when none).
from_oid(oid) ==
    CASE oid = KRB5_OID -> "kerberos"
      [] oid = MS_KRB5_OID -> "ms_kerberos"
      [] oid = NTLM_OID -> "ntlm"
      [] OTHER -> "ValueError"

\* GSSMech.<name>.value
mech_value(mech) ==
    CASE mech = "kerberos" -> KRB5_OID
      [] mech = "ms_kerberos" -> MS_KRB5_OID
      [] OTHER -> NTLM_OID

\* GSSMech.is_kerberos_oid
is_kerberos_oid(mech) == mech \in {"kerberos", "ms_kerberos"}

\* ------------------------------------------------------------------------
\* Wire values.  Inner tokens are opaque octets; "None" is the absent token.
Tokens == {"NEGOTIATE", "CHALLENGE", "AUTHENTICATE", "AP_REQ", "AP_REP"}

\* The DER body of one OBJECT IDENTIFIER, shortened to one octet.
OidOctet(oid) ==
    CASE oid = KRB5_OID -> 18
      [] oid = MS_KRB5_OID -> 130
      [] oid = NTLM_OID -> 10
      [] OTHER -> 5

RECURSIVE PackOids(_)
PackOids(ml) ==
    IF ml = <<>> THEN <<>>
    ELSE <<6, 1, OidOctet(Head(ml))>> \o PackOids(Tail(ml))

\* pack_mech_type_list: SEQUENCE OF OBJECT IDENTIFIER.
pack_mech_type_list(ml) == <<48, 3 * Len(ml)>> \o PackOids(ml)

NoMic == [data |-> <<>>, ok |-> FALSE, present |-> FALSE]

\* A message as unpack_neg_token returns it / as the pack functions take it.
NoMessage ==
    [mech_list_mic |-> NoMic, mech_token |-> "None", mech_types |-> <<>>,
     neg_state |-> "None", response_token |-> "None",
     supported_mech |-> "None", type |-> "None"]

pack_neg_token_init(kind, ml, tok, mic) ==
    [NoMessage EXCEPT !.type = kind, !.mech_types = ml, !.mech_token = tok,
                      !.mech_list_mic = mic]

pack_neg_token_resp(state, tok, mech, mic) ==
    [NoMessage EXCEPT !.type = "NegTokenResp", !.neg_state = state,
                      !.response_token = tok, !.supported_mech = mech,
                      !.mech_list_mic = mic]

\* ------------------------------------------------------------------------
\* The sub-context contract (GSSAPIProxy, NTLMProxy).

\* The protocol a sub-context runs: GSSAPIProxy is given protocol=mech.name,
\* NTLMProxy always runs NTLM.
ContextProtocol(ctx) == IF ctx.proxy = "GSSAPIProxy" THEN ctx.mech ELSE "ntlm"

\* The token flow of one mechanism: the reply to in_token of a sub-context
\* that has made pos steps; ok = FALSE is a raised error.
MechFlow(protocol, use, pos, in_token) ==
    CASE protocol = "ntlm" /\ use = "initiate" /\ pos = 0 /\ in_token = "None" ->
            [complete |-> FALSE, ok |-> TRUE, out |-> "NEGOTIATE"]
      [] protocol = "ntlm" /\ use = "initiate" /\ pos = 1 /\ in_token = "CHALLENGE" ->
            [complete |-> TRUE, ok |-> TRUE, out |-> "AUTHENTICATE"]
      [] protocol = "ntlm" /\ use = "accept" /\ pos = 0 /\ in_token = "NEGOTIATE" ->
            [complete |-> FALSE, ok |-> TRUE, out |-> "CHALLENGE"]
      [] protocol = "ntlm" /\ use = "accept" /\ pos = 1 /\ in_token = "AUTHENTICATE" ->
            [complete |-> TRUE, ok |-> TRUE, out |-> "None"]
      [] protocol # "ntlm" /\ use = "initiate" /\ pos = 0 /\ in_token = "None" ->
            [complete |-> FALSE, ok |-> TRUE, out |-> "AP_REQ"]
      [] protocol # "ntlm" /\ use = "initiate" /\ pos = 1 /\ in_token = "AP_REP" ->
            [complete |-> TRUE, ok |-> TRUE, out |-> "None"]
      [] protocol # "ntlm" /\ use = "accept" /\ pos = 0 /\ in_token = "AP_REQ" ->
            [complete |-> TRUE, ok |-> TRUE, out |-> "AP_REP"]
      [] OTHER -> [complete |-> FALSE, ok |-> FALSE, out |-> "None"]

\* Whether the backend of ctx fails in this step (orc: the environment).
BackendFails(ctx, orc) ==
    IF ctx.proxy = "GSSAPIProxy" THEN ctx.mech \in orc.gss_fail ELSE orc.ntlm_fail

\* ContextProxy.step of a sub-context: [ok, ctx, out].
ContextStep(ctx, use, in_token, orc) ==
    LET r == MechFlow(ContextProtocol(ctx), use, ctx.pos, in_token) IN
    IF BackendFails(ctx, orc) \/ ~r.ok
    THEN [ok |-> FALSE, ctx |-> ctx, out |-> "None"]
    ELSE [ok |-> TRUE,
          ctx |-> [ctx EXCEPT !.pos = ctx.pos + 1, !.last_in = in_token,
                              !.complete = r.complete,
                              !.requires_mech_list_mic =
                                  r.complete /\ ContextProtocol(ctx) = "ntlm" /\ orc.req_mic],
          out |-> r.out]

\* A sub-context as its constructor leaves it.
NewContext(mech, proxy) ==
    [mech |-> mech, proxy |-> proxy, first_token |-> "None", pos |-> 0,
     last_in |-> "None", complete |-> FALSE, requires_mech_list_mic |-> FALSE]

\* ContextProxy.sign of a sub-context.
ContextSign(data) == [data |-> data, ok |-> TRUE, present |-> TRUE]

\* ContextProxy.verify of a sub-context: the MIC is one over these octets.
ContextVerify(data, mic) == mic.ok /\ mic.data = data

\* wrap / unwrap / sign / verify of a sub-context called by a user: defined
\* only once the sub-context is complete.
ContextOp(ctx) == IF ctx.complete THEN "none" ELSE "NotComplete"

\* ------------------------------------------------------------------------
\* NegotiateProxy.

InSeq(x, seq) == \E i \in 1..Len(seq) : seq[i] = x

\* The fields of a NegotiateProxy as __init__ sets them.
NewProxy ==
    [complete |-> FALSE, context_list |-> <<>>, mech_list |-> <<>>,
     init_sent |-> FALSE, mech_sent |-> FALSE, mic_sent |-> FALSE,
     mic_recv |-> FALSE, mic_required |-> FALSE]

\* available_mechs of _rebuild_context_list: what GSSAPI offers, then NTLM.
available_mechs(gss) == gss \o <<"ntlm">>

\* chosen_mechs of _rebuild_context_list when a mech list is given.
chosen_from_list(ml, available) ==
    LET known == SelectSeq(ml, LAMBDA o : from_oid(o) # "ValueError")
        mechs == [i \in 1..Len(known) |-> from_oid(known[i])]
    IN  SelectSeq(mechs, LAMBDA m :
            InSeq(m, available) \/ (InSeq("kerberos", available) /\ is_kerberos_oid(m)))

\* The loop of _rebuild_context_list over chosen_mechs, from index i:
\* [context_list, mech_list, error].
RECURSIVE build_contexts(_, _, _, _, _, _, _, _, _)
build_contexts(chosen, i, ctxs, ml, one_required, in_token, gss, use, orc) ==
    IF i > Len(chosen)
    THEN [context_list |-> ctxs, mech_list |-> ml, error |-> "none"]
    ELSE
      LET mech == chosen[i]
          proxy == IF InSeq(mech, gss) THEN "GSSAPIProxy" ELSE "NTLMProxy"
          r == ContextStep(NewContext(mech, proxy), use, in_token, orc)
          ctx == [r.ctx EXCEPT !.first_token = r.out]
      IN  IF ~r.ok
          THEN IF proxy = "GSSAPIProxy"
               THEN build_contexts(chosen, i + 1, ctxs, ml, one_required, in_token,
                                   gss, use, orc)
               ELSE [context_list |-> ctxs, mech_list |-> ml, error |-> "BackendError"]
          ELSE IF one_required
               THEN [context_list |-> Append(ctxs, ctx), mech_list |-> ml,
                     error |-> "none"]
               ELSE build_contexts(chosen, i + 1, Append(ctxs, ctx),
                                   Append(ml, mech_value(mech)), one_required,
                                   in_token, gss, use, orc)

\* _rebuild_context_list(mech_list, in_token) on the context list ctxs:
\* [context_list, mech_list, error]; mech_list is the returned list.
rebuild_context_list(ctxs, ml, in_token, gss, use, orc) ==
    LET available == available_mechs(gss)
        one_required == ml # <<>>
        chosen == IF ml # <<>> THEN chosen_from_list(ml, available) ELSE available
    IN  IF chosen = <<>>
        THEN [context_list |-> ctxs, mech_list |-> ml, error |-> "NoCommonMechanism"]
        ELSE build_contexts(chosen, 1, ctxs, IF ml # <<>> THEN ml ELSE <<>>,
                            one_required, in_token, gss, use, orc)

\* Whether self._context is a sub-context (None on an empty context list).
HasContext(s) == s.context_list # <<>>

\* A rejection raises whether or not it carries a token.
rejected_any(tok) == tok.neg_state = "reject"

\* "if in_token.neg_state == NegState.reject and not token: raise".
rejected(tok) == tok.neg_state = "reject" /\ tok.response_token = "None"

\* self._complete is assigned from the neg_state instead of only being set.
input_complete_assigned(s, tok) == tok.neg_state = "accept_complete"

\* self._complete after the neg_state of a NegTokenResp is looked at.
input_complete(s, tok) == s.complete \/ tok.neg_state = "accept_complete"

\* The assignments of phase 1 after _rebuild_context_list returned r (or
\* raised r.error): self._mech_list = r.mech_list, and for a NegTokenInit
\* self._init_sent = True.
input_rebuilt(s, r, init, token, mic) ==
    IF r.error # "none"
    THEN [s |-> [s EXCEPT !.context_list = r.context_list],
          token |-> token, mech_list_mic |-> mic, error |-> r.error]
    ELSE [s |-> [s EXCEPT !.context_list = r.context_list,
                          !.mech_list = r.mech_list,
                          !.init_sent = s.init_sent \/ init],
          token |-> token, mech_list_mic |-> mic, error |-> "none"]

\* Phase 1 on a NegTokenResp.
input_resp(s, tok) ==
    IF rejected(tok)
    THEN [s |-> [s EXCEPT !.mech_sent = s.mech_sent \/ tok.supported_mech # "None"],
          token |-> tok.response_token,
          mech_list_mic |-> tok.mech_list_mic, error |-> "NegotiationRejected"]
    ELSE [s |-> [s EXCEPT
                   !.mech_sent = s.mech_sent \/ tok.supported_mech # "None",
                   !.mic_required = s.mic_required \/ tok.neg_state = "request_mic",
                   !.complete = input_complete(s, tok)],
          token |-> tok.response_token, mech_list_mic |-> tok.mech_list_mic,
          error |-> "none"]

\* Phase 1, _step_spnego_input: [s, token, mech_list_mic, error].
step_spnego_input(s, tok, gss, use, orc) ==
    IF tok.type = "NegTokenResp"
    THEN input_resp(s, tok)
    ELSE \* a NegTokenInit: rebuild from self._mech_list and the mech_token;
         \* no token: build from the local priority
         input_rebuilt(s,
             rebuild_context_list(s.context_list,
                                  IF tok.type = "None" THEN <<>> ELSE s.mech_list,
                                  tok.mech_token, gss, use, orc),
             tok.type # "None", tok.mech_token, tok.mech_list_mic)

\* Phase 2, _step_spnego_token: [s, out_token, error].
step_spnego_token(s, in_token, use, orc) ==
    IF ~HasContext(s)
    THEN [s |-> s, out_token |-> "None", error |-> "AttributeError"]
    ELSE
      LET ctx == s.context_list[1] IN
      IF ctx.complete
      THEN [s |-> s, out_token |-> "None", error |-> "none"]
      ELSE IF ctx.first_token # "None"
      THEN [s |-> [s EXCEPT !.context_list[1].first_token = "None",
                            !.mic_required = s.mic_required \/ ctx.requires_mech_list_mic],
            out_token |-> ctx.first_token, error |-> "none"]
      ELSE LET r == ContextStep(ctx, use, in_token, orc) IN
           IF ~r.ok
           THEN [s |-> s, out_token |-> "None", error |-> "BackendError"]
           ELSE [s |-> [s EXCEPT !.context_list[1] = r.ctx,
                                 !.mic_required =
                                     s.mic_required \/ r.ctx.requires_mech_list_mic],
                 out_token |-> r.out, error |-> "none"]

\* Phase 3, _step_spnego_mic: [s, out_mic, error, verified, signed].
\* verified/signed: the octets handed to verify/sign (<<>> when not called).
step_spnego_mic(s, in_mic) ==
    LET ctx == s.context_list[1]
        data == pack_mech_type_list(s.mech_list)
        none == [s |-> s, out_mic |-> NoMic, error |-> "none",
                 verified |-> <<>>, signed |-> <<>>]
        bad == in_mic.present /\ (~ctx.complete \/ ~ContextVerify(data, in_mic))
        s1 == IF in_mic.present
              THEN [s EXCEPT !.mic_required = TRUE, !.mic_recv = TRUE,
                             !.complete = s.complete \/ s.mic_sent]
              ELSE s
        v == IF in_mic.present THEN data ELSE <<>>
    IN  IF bad
        THEN [none EXCEPT !.verified = data,
                          !.error = IF ctx.complete THEN "IntegrityFailure"
                                    ELSE "NotComplete"]
        ELSE IF s1.mic_required /\ ~s1.mic_sent
        THEN IF ~ctx.complete
             THEN [none EXCEPT !.s = s1, !.verified = v, !.signed = data,
                               !.error = "NotComplete"]
             ELSE [s |-> [s1 EXCEPT !.mic_sent = TRUE], out_mic |-> ContextSign(data),
                   error |-> "none", verified |-> v, signed |-> data]
        ELSE [none EXCEPT !.s = s1, !.verified = v]

\* NegotiateProxy.wrap / unwrap / sign / verify: self._context.<op>(...); the
\* error the call raises ("none" when it returns).
user_op(s) ==
    IF ~HasContext(s) THEN "AttributeError" ELSE ContextOp(s.context_list[1])

\* self._mech, the mechanism named in supported_mech.
Mech(s) == IF s.mech_list = <<>> THEN "None" ELSE s.mech_list[1]

\* request_mic is chosen whenever this side has sent its MIC, also after it
\* has received the peer's.
resp_state_request_mic_again(s) ==
    IF s.context_list[1].complete
    THEN IF s.mic_sent THEN "request_mic" ELSE "accept_complete"
    ELSE "accept_incomplete"

\* The neg_state of an outgoing NegTokenResp.
resp_state(s) ==
    IF s.context_list[1].complete
    THEN IF s.mic_sent /\ ~s.mic_recv THEN "request_mic" ELSE "accept_complete"
    ELSE "accept_incomplete"

\* supported_mech is put in every reply.
supported_mech_always(s) == Mech(s)

\* supported_mech of an outgoing NegTokenResp: only in the first reply.
supported_mech_out(s) == IF ~s.mech_sent THEN Mech(s) ELSE "None"

\* Phase 4, _step_spnego_output: [s, out].
step_spnego_output(s, out_token, out_mic, use) ==
    IF ~s.init_sent
    THEN [s |-> [s EXCEPT !.init_sent = TRUE],
          out |-> pack_neg_token_init(
                      IF use = "initiate" THEN "NegTokenInit" ELSE "NegTokenInit2",
                      s.mech_list, out_token, out_mic)]
    ELSE IF ~s.complete
    THEN LET supported_mech == supported_mech_out(s)
             state == resp_state(s)
         IN  [s |-> [s EXCEPT !.mech_sent = TRUE,
                              !.complete = (state = "accept_complete")],
              out |-> pack_neg_token_resp(state, out_token, supported_mech, out_mic)]
    ELSE [s |-> s, out |-> NoMessage]

\* The end of step: the leftover contexts are removed once complete.
prune_contexts(s) ==
    IF s.complete THEN [s EXCEPT !.context_list = <<s.context_list[1]>>] ELSE s

\* What a step call that raised e in phase ph leaves.
raised(s, e, ph, verified, signed, inner_out) ==
    [s |-> s, out |-> NoMessage, error |-> e, phase |-> ph,
     verified |-> verified, signed |-> signed, inner_out |-> inner_out]

\* The value of a phase, computed once: the element of the singleton S.
The(S) == CHOOSE x \in S : TRUE

\* step after phase 4 (p2, p3, p4: what phases 2, 3, 4 returned).
step_end(p2, p3, p4) ==
    The({ [s |-> prune_contexts(r4.s), out |-> r4.out, error |-> "none",
           phase |-> 5, verified |-> p3.verified, signed |-> p3.signed,
           inner_out |-> p2.out_token] : r4 \in {p4} })

\* step after phase 3.
step_after_mic(p2, p3, use) ==
    The({ IF r3.error # "none"
          THEN raised(r3.s, r3.error, 3, r3.verified, r3.signed, p2.out_token)
          ELSE step_end(p2, r3, step_spnego_output(r3.s, p2.out_token, r3.out_mic, use))
          : r3 \in {p3} })

\* step after phase 2.
step_after_token(p1, p2, use) ==
    The({ IF r2.error # "none"
          THEN raised(r2.s, r2.error, 2, <<>>, <<>>, "None")
          ELSE step_after_mic(r2, step_spnego_mic(r2.s, p1.mech_list_mic), use)
          : r2 \in {p2} })

\* step after phase 1.
step_after_input(p1, use, orc) ==
    The({ IF r1.error # "none"
          THEN raised(r1.s, r1.error, 1, <<>>, <<>>, "None")
          ELSE step_after_token(r1, step_spnego_token(r1.s, r1.token, use, orc), use)
          : r1 \in {p1} })

\* NegotiateProxy.step(in_token): the proxy after the call, the returned
\* token, the raised error ("none" when it returns) and the phase it raised in.
step(s, tok, gss, use, orc) ==
    step_after_input(step_spnego_input(s, tok, gss, use, orc), use, orc)

\* ------------------------------------------------------------------------
\* The context factory (src/spnego/auth.py).

\* NegotiateOptions (spnego._context): one bit per flag.
use_sspi == 1
use_gssapi == 2
use_negotiate == 4
use_ntlm == 8
session_key == 16

\* The & of two non-negative integers.
RECURSIVE BitAnd(_, _)
BitAnd(a, b) ==
    IF a = 0 \/ b = 0 THEN 0
    ELSE (a % 2) * (b % 2) + 2 * BitAnd(a \div 2, b \div 2)

\* use_flags of _new_context: the | of the four use_* bits.
use_flags == use_sspi + use_gssapi + use_negotiate + use_ntlm

\* A Python value handed to the factory: an int or a str, as <<type, int
\* value, str value>>.
PyInt(n) == <<"int", n, "">>
PyStr(str) == <<"str", 0, str>>
IsInt(v) == v[1] = "int"
IsStr(v) == v[1] = "str"
IntOf(v) == v[2]
StrOf(v) == v[3]

\* str.lower() on the protocol names callers give.
lower(protocol) ==
    CASE protocol = "NTLM" -> "ntlm"
      [] protocol = "Kerberos" -> "kerberos"
      [] OTHER -> protocol

\* The if / elif chain of _new_context that ignores use_specified: the
\* availability rules also apply when a use_* bit is set.
select_proxy_availability_first(proto, options, sspi, gss) ==
    IF BitAnd(options, use_sspi) # 0 \/ proto \in sspi
    THEN [consulted |-> {"SSPIProxy"}, proxy |-> "SSPIProxy"]
    ELSE IF BitAnd(options, use_gssapi) # 0 \/ proto = "kerberos" \/ proto \in gss
    THEN [consulted |-> {"SSPIProxy", "GSSAPIProxy"}, proxy |-> "GSSAPIProxy"]
    ELSE IF BitAnd(options, use_negotiate) # 0 \/ proto = "negotiate"
    THEN [consulted |-> {"SSPIProxy", "GSSAPIProxy"}, proxy |-> "NegotiateProxy"]
    ELSE IF BitAnd(options, use_ntlm) # 0 \/ proto = "ntlm"
    THEN [consulted |-> {"SSPIProxy", "GSSAPIProxy"}, proxy |-> "NTLMProxy"]
    ELSE [consulted |-> {"SSPIProxy", "GSSAPIProxy"}, proxy |-> "None"]

\* The if / elif chain of _new_context in which GSSAPI is only taken for
\* kerberos: what GSSAPI advertises is not looked at.
select_proxy_kerberos_only(proto, options, sspi, gss) ==
    LET use_specified == BitAnd(options, use_flags) # 0 IN
    IF BitAnd(options, use_sspi) # 0 \/ (~use_specified /\ proto \in sspi)
    THEN [consulted |-> {}, proxy |-> "SSPIProxy"]
    ELSE IF BitAnd(options, use_gssapi) # 0 \/ (~use_specified /\ proto = "kerberos")
    THEN [consulted |-> {}, proxy |-> "GSSAPIProxy"]
    ELSE IF BitAnd(options, use_negotiate) # 0 \/ (~use_specified /\ proto = "negotiate")
    THEN [consulted |-> {}, proxy |-> "NegotiateProxy"]
    ELSE IF BitAnd(options, use_ntlm) # 0 \/ (~use_specified /\ proto = "ntlm")
    THEN [consulted |-> {}, proxy |-> "NTLMProxy"]
    ELSE [consulted |-> {}, proxy |-> "None"]

\* The if / elif chain of _new_context: the class it assigns to proxy ("None"
\* when it raises ValueError) and the backends whose available_protocols()
\* it called; sspi, gss: what SSPIProxy and GSSAPIProxy advertise.
select_proxy(proto, options, sspi, gss) ==
    LET use_specified == BitAnd(options, use_flags) # 0
        asked_sspi == IF BitAnd(options, use_sspi) = 0 /\ ~use_specified
                      THEN {"SSPIProxy"} ELSE {}
        asked_gss == IF BitAnd(options, use_gssapi) = 0 /\ ~use_specified
                        /\ proto # "kerberos"
                     THEN {"GSSAPIProxy"} ELSE {}
    IN
    IF BitAnd(options, use_sspi) # 0 \/ (~use_specified /\ proto \in sspi)
    THEN [proxy |-> "SSPIProxy", consulted |-> asked_sspi]
    ELSE IF BitAnd(options, use_gssapi) # 0
            \/ (~use_specified /\ (proto = "kerberos" \/ proto \in gss))
    THEN [proxy |-> "GSSAPIProxy", consulted |-> asked_sspi \cup asked_gss]
    ELSE IF BitAnd(options, use_negotiate) # 0 \/ (~use_specified /\ proto = "negotiate")
    THEN [proxy |-> "NegotiateProxy", consulted |-> asked_sspi \cup asked_gss]
    ELSE IF BitAnd(options, use_ntlm) # 0 \/ (~use_specified /\ proto = "ntlm")
    THEN [proxy |-> "NTLMProxy", consulted |-> asked_sspi \cup asked_gss]
    ELSE [proxy |-> "None", consulted |-> asked_sspi \cup asked_gss]

\* The constructor of a platform or NTLM backend: usage is restricted.
BackendInit(use) ==
    IF IsStr(use) /\ StrOf(use) \in {"initiate", "accept"} THEN "none"
    ELSE "ValueError"

\* proxy(username, ..., context_req, usage, proto, options): the error the
\* constructor call raises.  NegotiateProxy.__init__ takes eight arguments
\* and is handed nine.
construct(proxy, use) ==
    IF proxy = "NegotiateProxy" THEN "TypeError" ELSE BackendInit(use)

\* What a call of the factory that raised e leaves.
factory_raised(e, sel) ==
    [proxy |-> sel.proxy, consulted |-> sel.consulted, facade |-> "None",
     error |-> e]

\* _new_context after the if / elif chain assigned sel.
new_context_selected(sel, use) ==
    IF sel.proxy = "None" THEN factory_raised("ValueError", sel)
    ELSE IF construct(sel.proxy, use) # "none"
    THEN factory_raised(construct(sel.proxy, use), sel)
    ELSE [proxy |-> sel.proxy, consulted |-> sel.consulted, facade |-> sel.proxy,
          error |-> "none"]

\* _new_context(..., protocol, options, usage): [proxy, consulted, facade,
\* error]; options & use_flags raises TypeError unless options is an int.
new_context(protocol, options, use, sspi, gss) ==
    IF ~IsInt(options)
    THEN factory_raised("TypeError", [consulted |-> {}, proxy |-> "None"])
    ELSE new_context_selected(select_proxy(lower(protocol), IntOf(options), sspi, gss), use)

\* client(..., protocol, options): _new_context(..., protocol, 'initiate',
\* options), the arguments in this order; its parameters (options, usage).
client_args(options) == [options |-> PyStr("initiate"), usage |-> PyInt(options)]

\* server(..., protocol, options): _new_context(..., protocol, 'accept',
\* options).
server_args(options) == [options |-> PyStr("accept"), usage |-> PyInt(options)]

\* ------------------------------------------------------------------------
\* The state machine: one NegotiateProxy and the calls made on it.

VARIABLES
    usage,             \* 'initiate' or 'accept'
    gssapi_protocols,  \* GSSAPIProxy.available_protocols(), without negotiate
    complete, context_list, mech_list,
    init_sent, mech_sent, mic_sent, mic_recv, mic_required,
    in_token,          \* the decoded input of the last step call
    out_token,         \* the token the last step call returned
    error,             \* the error the last step call raised, or "none"
    phase,             \* the phase the last step call raised in (5: returned)
    verified, signed,  \* the octets the last step call verified / signed
    inner_out,         \* the inner token phase 2 of the last step call obtained
    prev,              \* the NegotiateProxy when the last step call began
    init_mech_types,   \* mech_types of the NegTokenInit of this handshake
    mic_failed,        \* a step call has failed verifying a mech_list_mic
    resp_log,          \* per emitted NegTokenResp: did it carry supported_mech
    steps,             \* the number of step calls made
    emitted,           \* the number of tokens the step calls have returned
    op,                \* the post-handshake operation just called, or "none"
    pc,                \* the caller: "idle", "returned" from a step call, or
                       \* "op_returned" from wrap / unwrap / sign / verify
    fac,               \* the context factory: the platform and its last call
    hs                 \* two NegotiateProxy peers and the wires between them

proxy_vars == <<complete, context_list, mech_list, init_sent, mech_sent, mic_sent,
                mic_recv, mic_required>>
vars == <<usage, gssapi_protocols, complete, context_list, mech_list, init_sent,
          mech_sent, mic_sent, mic_recv, mic_required, in_token, out_token, error,
          phase, verified, signed, inner_out, prev, init_mech_types, mic_failed,
          resp_log, steps, emitted, op, pc, fac, hs>>

\* The variables of the single NegotiateProxy and of its caller.
context_vars ==
    <<usage, gssapi_protocols, complete, context_list, mech_list, init_sent,
      mech_sent, mic_sent, mic_recv, mic_required, in_token, out_token, error,
      phase, verified, signed, inner_out, prev, init_mech_types, mic_failed,
      resp_log, steps, emitted, op, pc>>

\* The NegotiateProxy object as a record.
Self ==
    [complete |-> complete, context_list |-> context_list, mech_list |-> mech_list,
     init_sent |-> init_sent, mech_sent |-> mech_sent, mic_sent |-> mic_sent,
     mic_recv |-> mic_recv, mic_required |-> mic_required]

\* The environments of a step call that builds candidates: every backend
\* works, GSSAPI fails, or the builtin NTLM fails.
BuildOracles ==
    { [gss_fail |-> {}, ntlm_fail |-> FALSE, req_mic |-> FALSE],
      [gss_fail |-> {"kerberos", "ntlm"}, ntlm_fail |-> FALSE, req_mic |-> FALSE],
      [gss_fail |-> {}, ntlm_fail |-> TRUE, req_mic |-> FALSE] }

\* The environments of a step call on a NegTokenResp: whether a completing
\* NTLM sub-context asks for the mechListMIC (a failing backend acts as one
\* that is handed a token it does not expect).
RespOracles ==
    { [gss_fail |-> {}, ntlm_fail |-> FALSE, req_mic |-> m] : m \in BOOLEAN }

GssapiProtocols == {<<>>, <<"kerberos">>, <<"kerberos", "ntlm">>}

MechTypeLists ==
    {<<NTLM_OID>>, <<KRB5_OID>>, <<MS_KRB5_OID, KRB5_OID, NTLM_OID>>, <<OTHER_OID>>}

\* A mech_list_mic that is not a signature over any mech list.
BadMic == [data |-> <<0>>, ok |-> FALSE, present |-> TRUE]

\* The NegTokenInit messages a peer may send.
InitTokens ==
    { pack_neg_token_init("NegTokenInit", ml, tok, mic) :
        ml \in MechTypeLists, tok \in {"None", "NEGOTIATE", "AP_REQ"},
        mic \in {NoMic, BadMic} }
    \cup { pack_neg_token_init("NegTokenInit", ml, tok, ContextSign(pack_mech_type_list(ml))) :
        ml \in MechTypeLists, tok \in {"None", "NEGOTIATE", "AP_REQ"} }

\* The NegTokenResp messages a peer may send; its mech_list_mic is absent,
\* corrupted, or the signature over this context's mech list.
RespTokens ==
    { pack_neg_token_resp(st, tok, mech, mic) :
        st \in {"accept_complete", "accept_incomplete", "reject", "request_mic"},
        tok \in IF usage = "initiate" THEN {"None", "CHALLENGE", "AP_REP"}
                ELSE {"None", "AUTHENTICATE", "CHALLENGE"},
        mech \in {"None", NTLM_OID},
        mic \in {NoMic, BadMic, ContextSign(pack_mech_type_list(mech_list))} }

\* The factory before any call on a platform whose SSPI and GSSAPI advertise
\* sspi and gss.
NoFactoryCall(sspi, gss) ==
    [pc |-> "idle", entry |-> "none", protocol |-> "", sspi |-> sspi, gss |-> gss,
     options |-> PyInt(0), usage |-> PyStr(""),
     proxy |-> "None", consulted |-> {}, facade |-> "None", error |-> "none"]

\* Two peers as their constructors leave them, nothing on the wires; the
\* initiator's GSSAPI advertises igss and the acceptor's agss, and their NTLM
\* backends ask for the mechListMIC as imic and amic say.
NoHandshake(igss, agss, imic, amic) ==
    [ini |-> NewProxy, acc |-> NewProxy, ini_gss |-> igss, acc_gss |-> agss,
     ini_mic |-> imic, acc_mic |-> amic, to_acc |-> <<>>, to_ini |-> <<>>,
     ini_started |-> FALSE, ini_out |-> NoMessage, ini_verified |-> FALSE,
     ini_error |-> "none", acc_last |-> NoMessage, acc_verified |-> FALSE,
     acc_error |-> "none"]

\* The single NegotiateProxy of usage use, as __init__ leaves it.
ContextInit(use, gss) ==
    /\ usage = use
    /\ gssapi_protocols = gss
    /\ complete = NewProxy.complete
    /\ context_list = NewProxy.context_list
    /\ mech_list = NewProxy.mech_list
    /\ init_sent = NewProxy.init_sent
    /\ mech_sent = NewProxy.mech_sent
    /\ mic_sent = NewProxy.mic_sent
    /\ mic_recv = NewProxy.mic_recv
    /\ mic_required = NewProxy.mic_required
    /\ in_token = NoMessage
    /\ out_token = NoMessage
    /\ error = "none"
    /\ phase = 0
    /\ verified = <<>>
    /\ signed = <<>>
    /\ inner_out = "None"
    /\ prev = NewProxy
    /\ init_mech_types = <<>>
    /\ mic_failed = FALSE
    /\ resp_log = <<>>
    /\ steps = 0
    /\ emitted = 0
    /\ op = "none"
    /\ pc = "idle"

Init ==
    /\ fac = NoFactoryCall({}, {})
    /\ hs = NoHandshake(<<>>, <<>>, FALSE, FALSE)
    /\ usage \in {"initiate", "accept"}
    /\ gssapi_protocols \in GssapiProtocols
    /\ complete = NewProxy.complete
    /\ context_list = NewProxy.context_list
    /\ mech_list = NewProxy.mech_list
    /\ init_sent = NewProxy.init_sent
    /\ mech_sent = NewProxy.mech_sent
    /\ mic_sent = NewProxy.mic_sent
    /\ mic_recv = NewProxy.mic_recv
    /\ mic_required = NewProxy.mic_required
    /\ in_token = NoMessage
    /\ out_token = NoMessage
    /\ error = "none"
    /\ phase = 0
    /\ verified = <<>>
    /\ signed = <<>>
    /\ inner_out = "None"
    /\ prev = NewProxy
    /\ init_mech_types = <<>>
    /\ mic_failed = FALSE
    /\ resp_log = <<>>
    /\ steps = 0
    /\ emitted = 0
    /\ op = "none"
    /\ pc = "idle"

\* One call of step(in_token) in the environment orc.
Call(tok, orc) ==
    /\ pc = "idle"
    /\ steps < MaxSteps
    /\ \E r \in {step(Self, tok, gssapi_protocols, usage, orc)} :
       /\ pc' = "returned"
       /\ steps' = steps + 1
       /\ complete' = r.s.complete
       /\ context_list' = r.s.context_list
       /\ mech_list' = r.s.mech_list
       /\ init_sent' = r.s.init_sent
       /\ mech_sent' = r.s.mech_sent
       /\ mic_sent' = r.s.mic_sent
       /\ mic_recv' = r.s.mic_recv
       /\ mic_required' = r.s.mic_required
       /\ in_token' = tok
       /\ out_token' = r.out
       /\ error' = r.error
       /\ phase' = r.phase
       /\ verified' = r.verified
       /\ signed' = r.signed
       /\ inner_out' = r.inner_out
       /\ prev' = Self
       /\ init_mech_types' =
             IF tok.type \in {"NegTokenInit", "NegTokenInit2"} THEN tok.mech_types
             ELSE IF r.out.type \in {"NegTokenInit", "NegTokenInit2"} THEN r.out.mech_types
             ELSE init_mech_types
       /\ mic_failed' = (mic_failed \/ r.error = "IntegrityFailure")
       /\ resp_log' = IF r.out.type = "NegTokenResp"
                      THEN Append(resp_log, r.out.supported_mech # "None")
                      ELSE resp_log
       /\ emitted' = IF r.out.type # "None" THEN emitted + 1 ELSE emitted
       /\ UNCHANGED <<usage, gssapi_protocols, op, fac, hs>>

\* step() / step(None): no input token.
StepNoToken == \E orc \in BuildOracles : Call(NoMessage, orc)

\* step(in_token) with a NegTokenInit.
StepInit == \E tok \in InitTokens, orc \in BuildOracles : Call(tok, orc)

\* step(in_token) with a NegTokenResp.
StepResp == \E tok \in RespTokens, orc \in RespOracles : Call(tok, orc)

\* The caller takes what the step call returned (or raised) and is ready to
\* call again.
Return ==
    /\ pc \in {"returned", "op_returned"}
    /\ pc' = "idle"
    /\ op' = "none"
    /\ in_token' = NoMessage
    /\ out_token' = NoMessage
    /\ error' = "none"
    /\ phase' = 0
    /\ verified' = <<>>
    /\ signed' = <<>>
    /\ inner_out' = "None"
    /\ prev' = Self
    /\ UNCHANGED <<usage, gssapi_protocols, proxy_vars, init_mech_types, mic_failed,
                   resp_log, steps, emitted, fac, hs>>

UserOps == {"wrap", "unwrap", "sign", "verify"}

\* The user calls wrap, unwrap, sign or verify on the NegotiateProxy.
UserOp ==
    /\ pc = "idle"
    /\ pc' = "op_returned"
    /\ op' \in UserOps
    /\ error' = user_op(Self)
    /\ UNCHANGED <<usage, gssapi_protocols, proxy_vars, in_token, out_token, phase,
                   verified, signed, inner_out, prev, init_mech_types, mic_failed,
                   resp_log, steps, emitted, fac, hs>>

Next == StepNoToken \/ StepInit \/ StepResp \/ UserOp \/ Return

Spec == Init /\ [][Next]_vars

\* The caller has a step call's result in hand.
Returned == pc = "returned"
IsInit(tok) == tok.type \in {"NegTokenInit", "NegTokenInit2"}
IsResp(tok) == tok.type = "NegTokenResp"

\* ------------------------------------------------------------------------
\* The factory's state machine: callers create contexts on one platform.

Protocols == {"kerberos", "negotiate", "ntlm", "NTLM", "credssp"}
KnownProtocols == {"kerberos", "negotiate", "ntlm"}

\* The options bitsets of the five flags.
AllOptions == 0..(2 * session_key - 1)

SspiAvailable == {{}, {"ntlm"}, {"kerberos", "negotiate", "ntlm"}}
GssapiAvailable == {{}, {"kerberos"}, {"kerberos", "ntlm"},
                    {"kerberos", "negotiate", "ntlm"}}

FactoryInit ==
    /\ fac \in {NoFactoryCall(sspi, gss) : sspi \in SspiAvailable, gss \in GssapiAvailable}
    /\ hs = NoHandshake(<<>>, <<>>, FALSE, FALSE)
    /\ ContextInit("initiate", <<>>)

\* One call that reaches _new_context with the parameters args.
FactoryCall(entry, protocol, args) ==
    /\ fac.pc = "idle"
    /\ \E r \in {new_context(protocol, args.options, args.usage, fac.sspi, fac.gss)} :
         fac' = [fac EXCEPT !.pc = "called", !.entry = entry, !.protocol = protocol,
                            !.options = args.options, !.usage = args.usage,
                            !.proxy = r.proxy, !.consulted = r.consulted,
                            !.facade = r.facade, !.error = r.error]
    /\ UNCHANGED <<context_vars, hs>>

\* _new_context(..., protocol, options, usage) called with its own parameters.
CallNewContext ==
    \E protocol \in Protocols, o \in AllOptions, use \in {"initiate", "accept"} :
        FactoryCall("_new_context", protocol, [options |-> PyInt(o), usage |-> PyStr(use)])

\* client(username, password, protocol=protocol, options=o)
CallClient ==
    \E protocol \in Protocols, o \in AllOptions :
        FactoryCall("client", protocol, client_args(o))

\* server(username, password, protocol=protocol, options=o)
CallServer ==
    \E protocol \in Protocols, o \in AllOptions :
        FactoryCall("server", protocol, server_args(o))

\* The caller takes the facade (or the error) and may call again.
FactoryReturn ==
    /\ fac.pc = "called"
    /\ fac' = NoFactoryCall(fac.sspi, fac.gss)
    /\ UNCHANGED <<context_vars, hs>>

FactoryNext == CallNewContext \/ CallClient \/ CallServer \/ FactoryReturn

FactorySpec == FactoryInit /\ [][FactoryNext]_vars

\* ------------------------------------------------------------------------
\* Two peers: an initiator and an acceptor NegotiateProxy whose callers hand
\* every returned token to the other side, in order.

\* The environment of a peer's step calls: honest backends.
HonestOracle(mic) == [gss_fail |-> {}, ntlm_fail |-> FALSE, req_mic |-> mic]

HandshakeInit ==
    /\ hs \in {NoHandshake(igss, agss, imic, amic) :
                 igss \in GssapiProtocols, agss \in GssapiProtocols,
                 imic \in BOOLEAN, amic \in BOOLEAN}
    /\ fac = NoFactoryCall({}, {})
    /\ ContextInit("initiate", <<>>)

\* The wire after a step call returned out.
Sent(wire, out) == IF out.type # "None" THEN Append(wire, out) ELSE wire

\* The initiator's caller after step(tok) gave r.
IniStepped(r, to_ini) ==
    hs' = [hs EXCEPT !.ini = r.s, !.ini_started = TRUE, !.ini_out = r.out,
                     !.ini_error = r.error,
                     !.ini_verified = (r.verified # <<>> /\ r.error = "none"),
                     !.to_ini = to_ini,
                     !.to_acc = Sent(hs.to_acc, r.out)]

\* The initiator's first call: step().
IniStart ==
    /\ ~hs.ini_started
    /\ \E r \in {step(hs.ini, NoMessage, hs.ini_gss, "initiate", HonestOracle(hs.ini_mic))} :
         IniStepped(r, hs.to_ini)
    /\ UNCHANGED <<context_vars, fac>>

\* The initiator's caller hands it the acceptor's next token.
IniStep ==
    /\ hs.ini_started /\ hs.ini_error = "none" /\ hs.to_ini # <<>>
    /\ \E r \in {step(hs.ini, Head(hs.to_ini), hs.ini_gss, "initiate",
                     HonestOracle(hs.ini_mic))} :
         IniStepped(r, Tail(hs.to_ini))
    /\ UNCHANGED <<context_vars, fac>>

\* The acceptor's caller hands it the initiator's next token.
AccStep ==
    /\ hs.acc_error = "none" /\ hs.to_acc # <<>>
    /\ \E r \in {step(hs.acc, Head(hs.to_acc), hs.acc_gss, "accept",
                     HonestOracle(hs.acc_mic))} :
         hs' = [hs EXCEPT !.acc = r.s, !.acc_error = r.error,
                          !.acc_last = IF r.out.type # "None" THEN r.out
                                       ELSE hs.acc_last,
                          !.acc_verified = (r.verified # <<>> /\ r.error = "none"),
                          !.to_acc = Tail(hs.to_acc),
                          !.to_ini = Sent(hs.to_ini, r.out)]
    /\ UNCHANGED <<context_vars, fac>>

HandshakeNext == IniStart \/ IniStep \/ AccStep

\* A caller that holds a token for its context calls step with it.
HandshakeSpec ==
    /\ HandshakeInit /\ [][HandshakeNext]_vars
    /\ WF_vars(IniStart) /\ WF_vars(IniStep) /\ WF_vars(AccStep)

\* Both peers have NTLM only: no GSSAPI mechanism on either side.
NtlmOnly == hs.ini_gss = <<>> /\ hs.acc_gss = <<>>

\* The initiator has started and every returned token was handed over.
Quiet == hs.ini_started /\ hs.to_acc = <<>> /\ hs.to_ini = <<>>

BothComplete == hs.ini.complete /\ hs.acc.complete

\* The acceptor's last message is accept_complete with its own mechListMIC,
\* the client verified it and the client's last step returned no token.
MicEnding ==
    /\ IsResp(hs.acc_last)
    /\ hs.acc_last.neg_state = "accept_complete"
    /\ hs.acc_last.mech_list_mic = ContextSign(pack_mech_type_list(hs.acc.mech_list))
    /\ hs.ini_verified
    /\ hs.ini_out = NoMessage

\* C11 as stated: an NTLM-only handshake between honest peers ends with both
\* complete, the acceptor's last message being accept_complete with its own
\* mech_list_mic, which the client verified, and the client's final step
\* returning no token.
C11_NtlmHandshakeEndsWithMic ==
    (NtlmOnly /\ Quiet) => (BothComplete /\ MicEnding)

\* C11 amended: an NTLM-only handshake between honest peers eventually has
\* both peers complete for good with no token left to hand over; when the
\* initiator's NTLM backend asks for the mechListMIC, the acceptor's last
\* message is accept_complete with its own mech_list_mic, the client
\* verified it and the client's final step returned no token.
C11_NtlmHandshakeCompletes ==
    <>[](NtlmOnly => (Quiet /\ BothComplete /\ (hs.ini_mic => MicEnding)))

\* An NTLM-only handshake with the mechListMIC has ended that way.
C11_Witness ==
    NtlmOnly /\ hs.ini_mic /\ Quiet /\ BothComplete /\ MicEnding /\ hs.acc_verified

\* ------------------------------------------------------------------------
\* Properties.

\* C1: in every reachable state, complete implies that the active
\* sub-context is complete and that no mechListMIC is owed
\* (not mic_required, or both mic_sent and mic_recv).  Stated for the
\* states in which a step call that raised nothing has just made the
\* context complete.
C1_CompleteImpliesInnerAndMic ==
    (complete /\ Returned /\ error = "none" /\ ~prev.complete) =>
        /\ context_list # <<>>
        /\ context_list[1].complete
        /\ (~mic_required \/ (mic_sent /\ mic_recv))

\* C2: once a step has failed verifying a mech_list_mic, complete is false
\* right after that step and after every later step.
C2_BadMicNeverComplete == mic_failed => ~complete

\* C3: complete never turns back to false, whatever step is called next.
C3_CompleteIsStable == [][complete => complete']_vars

\* A step call was made on a context that was already complete, and returned.
C3_Witness == Returned /\ prev.complete /\ complete /\ error = "none"

\* C7: a step on a NegTokenResp with neg_state reject and no response_token
\* raises NegotiationRejected in phase 1 and returns no token; a reject that
\* carries a response_token gets past phase 1.
C7_RejectWithoutToken ==
    (Returned /\ IsResp(in_token) /\ in_token.neg_state = "reject") =>
        IF in_token.response_token = "None"
        THEN error = "NegotiationRejected" /\ phase = 1 /\ out_token = NoMessage
        ELSE phase > 1

\* A context that has candidates was handed a bare reject and raised.
C7_Witness ==
    /\ Returned /\ IsResp(in_token) /\ in_token.neg_state = "reject"
    /\ in_token.response_token = "None"
    /\ prev.context_list # <<>>
    /\ error = "NegotiationRejected"

RECURSIVE IsSubseq(_, _)
IsSubseq(a, b) ==
    IF a = <<>> THEN TRUE
    ELSE IF b = <<>> THEN FALSE
    ELSE IF Head(a) = Head(b) THEN IsSubseq(Tail(a), Tail(b))
    ELSE IsSubseq(a, Tail(b))

\* Kerberos OIDs compare by equivalence class.
MechClass(mech) == IF is_kerberos_oid(mech) THEN "kerberos" ELSE mech

\* C4: after the first NegTokenInit an acceptor's step receives, its
\* candidates are mechanisms of the received mech_types that are locally
\* available, in the peer's order, and its recorded mech list holds only
\* mechanisms the peer offered.
C4_AcceptorFollowsPeerList ==
    (Returned /\ usage = "accept" /\ IsInit(in_token) /\ prev.context_list = <<>>) =>
        LET want == chosen_from_list(in_token.mech_types,
                                     available_mechs(gssapi_protocols))
            offered == {MechClass(want[i]) : i \in 1..Len(want)}
        IN  /\ IsSubseq([i \in 1..Len(context_list) |-> MechClass(context_list[i].mech)],
                        [i \in 1..Len(want) |-> MechClass(want[i])])
            /\ error = "none" =>
                   \A i \in 1..Len(mech_list) :
                       MechClass(from_oid(mech_list[i])) \in offered

\* C5: the octets a step signs or verifies as mechListMIC are the packing of
\* the mech list carried in the NegTokenInit of this handshake.  Stated for
\* the acceptor's steps whose input carries no corrupted mech_list_mic and
\* whose sub-context did sign or verify (it raised nothing but a mismatch).
C5_MicOverInitMechTypes ==
    ( /\ Returned /\ usage = "accept" /\ in_token.mech_list_mic # BadMic
      /\ error \in {"none", "IntegrityFailure"} ) =>
        /\ verified # <<>> => verified = pack_mech_type_list(init_mech_types)
        /\ signed # <<>> => signed = pack_mech_type_list(init_mech_types)

\* C6: after a step that builds the candidate list (no token, or a
\* NegTokenInit), the candidate list is non-empty or the step failed with
\* NoCommonMechanism.
C6_CandidatesOrNoCommonMechanism ==
    (Returned /\ (in_token.type = "None" \/ IsInit(in_token))) =>
        (context_list # <<>> \/ error = "NoCommonMechanism")

\* C9: an initiator that offered [Kerberos, NTLM] with Kerberos active and
\* receives a NegTokenResp naming NTLM as supported_mech has NTLM as its
\* active mechanism after the step, and is not complete before a
\* mech_list_mic was both sent and received.
C9_SwitchToSupportedMech ==
    ( /\ Returned /\ usage = "initiate" /\ IsResp(in_token)
      /\ in_token.supported_mech = NTLM_OID /\ in_token.neg_state # "reject"
      /\ prev.mech_list = <<KRB5_OID, NTLM_OID>>
      /\ Len(prev.context_list) = 2
      /\ prev.context_list[1].mech = "kerberos"
      /\ prev.context_list[2].mech = "ntlm" ) =>
        /\ context_list[1].mech = "ntlm"
        /\ complete => (mic_sent /\ mic_recv)

\* C10: the client's second step of the NTLM handshake, fed accept_incomplete
\* with the CHALLENGE and producing an AUTHENTICATE that asks for the
\* mechListMIC, returns NegTokenResp{accept_incomplete, AUTHENTICATE,
\* sign(pack(mech_list))}.
C10_ClientSecondStep ==
    ( /\ Returned /\ usage = "initiate" /\ error = "none"
      /\ IsResp(in_token) /\ in_token.neg_state = "accept_incomplete"
      /\ in_token.response_token = "CHALLENGE"
      /\ in_token.mech_list_mic = NoMic
      /\ prev.mech_list = <<NTLM_OID>>
      /\ Len(prev.context_list) = 1
      /\ prev.context_list[1].pos = 1
      /\ ~prev.mic_required /\ ~prev.mic_sent /\ ~prev.complete
      /\ context_list[1].complete
      /\ context_list[1].requires_mech_list_mic ) =>
        /\ IsResp(out_token)
        /\ out_token.neg_state = "accept_incomplete"
        /\ out_token.response_token = "AUTHENTICATE"
        /\ out_token.mech_list_mic = ContextSign(pack_mech_type_list(<<NTLM_OID>>))

\* The eager first token of the active sub-context that the step call just
\* made built: the reply of its mechanism to the mech_token of the input.
EagerToken ==
    MechFlow(ContextProtocol(context_list[1]), usage, 0, in_token.mech_token).out

\* The inner token carried by a message.
InnerToken(msg) ==
    IF IsInit(msg) THEN msg.mech_token
    ELSE IF IsResp(msg) THEN msg.response_token
    ELSE "None"

\* C12: the token of the backend's eager first step, made while the step
\* built the candidates, is carried in the message that same step returns
\* (mech_token of a NegTokenInit, response_token of a NegTokenResp) and the
\* cache is cleared, also when the backend became complete in that first
\* step.
C12_EagerTokenCarried ==
    ( /\ Returned /\ error = "none"
      /\ (in_token.type = "None" \/ IsInit(in_token))
      /\ prev.context_list = <<>> /\ context_list # <<>> ) =>
        /\ InnerToken(out_token) = EagerToken
        /\ context_list[1].first_token = "None"

\* C13: wrap, unwrap, sign and verify called on a context that is not
\* complete fail with NotComplete.
C13_OpsNeedComplete ==
    (pc = "op_returned" /\ ~complete) => error = "NotComplete"

\* C18: a NegTokenResp with neg_state request_mic is returned only by an
\* acceptor whose active mechanism is not mech_list[0]; never by an
\* initiator.
C18_RequestMicOnlyAcceptor ==
    (Returned /\ IsResp(out_token) /\ out_token.neg_state = "request_mic") =>
        /\ usage = "accept"
        /\ mech_value(context_list[1].mech) # mech_list[1]

\* C19: a step call that computes this context's mechListMIC (sets mic_sent)
\* is made after the context has returned a message in an earlier step call
\* and, with this call's input, consumed the peer's reply to it: no MIC is
\* computed in the step call that returns the context's first message.
C19_MicAfterRoundTrip ==
    (Returned /\ mic_sent /\ ~prev.mic_sent) =>
        (emitted - (IF out_token.type # "None" THEN 1 ELSE 0)) >= 1

NoRepeat(seq) == \A i, j \in 1..Len(seq) : seq[i] = seq[j] => i = j

\* C20: over any sequence of step calls on an initiator the candidate list
\* holds at most one record per mechanism, the recorded mech list has no
\* repeated OID, and a rebuild does not replace candidates[0].
C20_InitiatorListBuiltOnce ==
    usage = "initiate" =>
        /\ NoRepeat([i \in 1..Len(context_list) |-> context_list[i].mech])
        /\ NoRepeat(mech_list)
        /\ (Returned /\ prev.context_list # <<>> /\ context_list # <<>>) =>
               /\ context_list[1].mech = prev.context_list[1].mech
               /\ context_list[1].proxy = prev.context_list[1].proxy

\* C21: a step call that returns hands out what it produced: the inner token
\* phase 2 obtained is the one carried by the returned message, and the MIC
\* phase 3 computed (setting mic_sent) is the mech_list_mic of the returned
\* message, also when the input was a NegTokenResp with accept_complete.
C21_StepReturnsWhatItProduced ==
    (Returned /\ error = "none") =>
        /\ inner_out # "None" => InnerToken(out_token) = inner_out
        /\ (mic_sent /\ ~prev.mic_sent) =>
               /\ out_token.type # "None"
               /\ out_token.mech_list_mic = ContextSign(signed)

\* ------------------------------------------------------------------------
\* Properties of the factory.

FactoryCalled == fac.pc = "called"

\* _new_context was handed a bitset as its options parameter.
OptionsIsBitset == IsInt(fac.options)

\* The use_* bits of the options _new_context was handed.
UseBits == BitAnd(IntOf(fac.options), use_flags)

\* C14: client(...) creates its context with usage = initiate and
\* server(...) with usage = accept, the selector tests the caller's options
\* bitset for the use_* bits, and for every protocol of {kerberos, negotiate,
\* ntlm} and every options value the call returns a facade.
C14_ClientServerReturnFacade ==
    ( /\ FactoryCalled /\ fac.entry \in {"client", "server"}
      /\ lower(fac.protocol) \in KnownProtocols ) =>
        /\ fac.usage = PyStr(IF fac.entry = "client" THEN "initiate" ELSE "accept")
        /\ OptionsIsBitset
        /\ fac.error = "none"
        /\ fac.facade # "None"

\* C15: a protocol outside {kerberos, negotiate, ntlm} (after lower-casing)
\* makes the factory fail with UnknownProtocol (ValueError) for every
\* options bitset, and no backend is selected or constructed.
C15_UnknownProtocolFails ==
    (FactoryCalled /\ OptionsIsBitset /\ lower(fac.protocol) \notin KnownProtocols) =>
        /\ fac.error = "ValueError"
        /\ fac.proxy = "None"
        /\ fac.facade = "None"

\* The backend of a use_* bit.
BackendOfBit(bit) ==
    CASE bit = use_sspi -> "SSPIProxy"
      [] bit = use_gssapi -> "GSSAPIProxy"
      [] bit = use_negotiate -> "NegotiateProxy"
      [] bit = use_ntlm -> "NTLMProxy"

\* C16: when exactly one use_* bit is set in the options, the factory
\* selects that bit's backend, for every protocol and whatever SSPI and
\* GSSAPI advertise, and calls no available_protocols().
C16_UseBitSelectsBackend ==
    ( /\ FactoryCalled /\ OptionsIsBitset
      /\ UseBits \in {use_sspi, use_gssapi, use_negotiate, use_ntlm} ) =>
        /\ fac.proxy = BackendOfBit(UseBits)
        /\ fac.consulted = {}

\* use_ntlm alone was set for protocol kerberos on a platform whose SSPI and
\* GSSAPI both advertise kerberos, and the builtin NTLM was selected.
C16_Witness ==
    /\ FactoryCalled /\ OptionsIsBitset /\ UseBits = use_ntlm
    /\ fac.protocol = "kerberos"
    /\ "kerberos" \in fac.sspi /\ "kerberos" \in fac.gss
    /\ fac.proxy = "NTLMProxy" /\ fac.error = "none"

\* The default rules apply to a request for ntlm that SSPI does not serve.
NtlmByDefault ==
    /\ FactoryCalled /\ OptionsIsBitset /\ UseBits = 0
    /\ lower(fac.protocol) = "ntlm"
    /\ "ntlm" \notin fac.sspi

\* C17 as stated: with no use_* bit set, protocol ntlm and SSPI not
\* advertising ntlm, the factory selects the builtin NTLM backend whatever
\* GSSAPI advertises.
C17_NtlmBuiltinWhateverGssapi == NtlmByDefault => fac.proxy = "NTLMProxy"

\* C17 amended: with no use_* bit set, protocol ntlm and SSPI not
\* advertising ntlm, the factory selects GSSAPI when GSSAPI advertises ntlm
\* and the builtin NTLM backend otherwise.
C17_NtlmBuiltinUnlessGssapi ==
    NtlmByDefault =>
        fac.proxy = IF "ntlm" \in fac.gss THEN "GSSAPIProxy" ELSE "NTLMProxy"

\* ntlm was requested on a platform whose GSSAPI advertises kerberos only,
\* and the builtin NTLM backend was selected and constructed.
C17_Witness ==
    /\ NtlmByDefault /\ fac.gss = {"kerberos"}
    /\ fac.proxy = "NTLMProxy" /\ fac.facade = "NTLMProxy"

====
